---- MODULE Spec2Model ----
(***************************************************************************)
(* Model of src/app/streamlit_main.py: the document-intake review console. *)
(* The module holds one state machine per part of the program:             *)
(*   SpecPreview  render_document_preview and its per-file page state      *)
(*   SpecNorm     ensure_dict / extract_response_fields                    *)
(*   SpecPrompts  replace_prompts                                          *)
(*   SpecEsc      esc / escape_json_for_sql and the query texts built      *)
(*   SpecApp      one session of script runs: caches, revision counter,    *)
(*                external calls and their failures                        *)
(*   SpecUpload   one click on Upload & Process                            *)
(* Text the program inspects character by character (file names, values    *)
(* put into query literals) is a sequence of one-character strings.        *)
(***************************************************************************)
EXTENDS Integers, Sequences, FiniteSets, TLC

VARIABLES
    stage,          \* per file name: what the stage and the URL service hold
    session_state,  \* st.session_state["pdf_page::<file>"], 0 = key absent
    widget,         \* the slider widget of the frame on screen, or NoWidget
    frame,          \* what the last run of render_document_preview did
    script,         \* history: the clicks of a session made of clicks only
    sliderUsed,     \* history: the user has moved a slider in this session
    switched,       \* history: the last pass previewed another file than the
                    \* one on screen before it
    norm_in,        \* the argument of extract_response_fields
    norm_out,       \* its outcome, Pending before the call
    esc_in,         \* the argument of esc / escape_json_for_sql
    esc_out,        \* what the two functions returned for it
    query,          \* the last query text built: its parts in order
    prm_in,         \* the edited table passed to replace_prompts
    prm_out,        \* what replace_prompts submitted and returned
    backend,        \* the tables behind the procedures and the queries
    cache,          \* st.cache_data: per cached function, key -> value
    cache_buster,   \* st.session_state["_cache_buster"]
    run,            \* what the last script run did and displayed
    upl_in,         \* one click on Upload & Process: the files, the failing calls
    upl_out         \* the calls its handler issued and the messages it showed

previewVars ==
    <<stage, session_state, widget, frame, script, sliderUsed, switched>>

normVars == <<norm_in, norm_out>>

escVars == <<esc_in, esc_out, query>>

promptVars == <<prm_in, prm_out>>

appVars == <<backend, cache, cache_buster, run>>

uploadVars == <<upl_in, upl_out>>

vars == <<previewVars, normVars, escVars, promptVars, appVars, uploadVars>>

\* What the actions of one part leave alone
notPreviewVars == <<normVars, escVars, promptVars, appVars, uploadVars>>
notNormVars    == <<previewVars, escVars, promptVars, appVars, uploadVars>>
notEscVars     == <<previewVars, normVars, promptVars, appVars, uploadVars>>
notPromptVars  == <<previewVars, normVars, escVars, appVars, uploadVars>>
notAppVars     == <<previewVars, normVars, escVars, promptVars, uploadVars>>
notUploadVars  == <<previewVars, normVars, escVars, promptVars, appVars>>

(***************************************************************************)
(* Bounds                                                                  *)
(***************************************************************************)
MaxPages == 3
MaxList == 2
MaxStr == 3
MaxRows == 2
MaxBumps == 2
MaxFiles == 2

(***************************************************************************)
(* Helpers                                                                 *)
(***************************************************************************)
Min(a, b) == IF a < b THEN a ELSE b
Max(a, b) == IF a > b THEN a ELSE b

RECURSIVE JoinWith(_, _)
\* sep.join(parts) for a sequence of character sequences
JoinWith(sep, parts) ==
    IF parts = <<>> THEN <<>>
    ELSE IF Len(parts) = 1 THEN parts[1]
    ELSE parts[1] \o sep \o JoinWith(sep, Tail(parts))

RECURSIVE SplitOn(_, _)
\* s.split(c): the pieces of s between occurrences of the character c
SplitOn(s, c) ==
    IF s = <<>> THEN << <<>> >>
    ELSE LET rest == SplitOn(Tail(s), c)
         IN  IF Head(s) = c THEN << <<>> >> \o rest
             ELSE << <<Head(s)>> \o rest[1] >> \o Tail(rest)

HasChar(s, c) == \E i \in 1..Len(s) : s[i] = c

\* str.lower() on the characters file names are made of here
LowerChar(c) ==
    CASE c = "P" -> "p" [] c = "D" -> "d" [] c = "F" -> "f"
      [] c = "N" -> "n" [] c = "G" -> "g" [] OTHER -> c

Lower(s) == [i \in 1..Len(s) |-> LowerChar(s[i])]

(***************************************************************************)
(* Python and JSON values.  A str is a sequence of symbols; a dict is the  *)
(* sequence of its items in insertion order, its keys distinct.            *)
(***************************************************************************)
JNull    == [t |-> "null"]
JBool(b) == [t |-> "bool", b |-> b]
JNum(n)  == [t |-> "num", n |-> n]
JStr(x)  == [t |-> "str", s |-> x]
JList(l) == [t |-> "list", l |-> l]
JMap(m)  == [t |-> "map", m |-> m]
NaN      == [t |-> "nan"]
Item(k, v) == [k |-> k, v |-> v]

IsMap(v)  == v.t = "map"
IsList(v) == v.t = "list"
IsStr(v)  == v.t = "str"

HasKey(d, k) == \E i \in 1..Len(d.m) : d.m[i].k = k
\* d[k] for a key the dict has
Get(d, k) == d.m[CHOOSE i \in 1..Len(d.m) : d.m[i].k = k].v

Digit(n) ==
    CASE n = 0 -> "0" [] n = 1 -> "1" [] n = 2 -> "2" [] n = 3 -> "3"
      [] n = 4 -> "4" [] n = 5 -> "5" [] n = 6 -> "6" [] n = 7 -> "7"
      [] n = 8 -> "8" [] OTHER -> "9"

RECURSIVE Replace(_, _, _)
\* s.replace(c, r) for a one-symbol c
Replace(s, c, r) ==
    IF s = <<>> THEN <<>>
    ELSE (IF Head(s) = c THEN r ELSE <<Head(s)>>) \o Replace(Tail(s), c, r)

\* The body of a JSON string: backslash and double quote escaped
JsonStrBody(x) == Replace(Replace(x, "\\", <<"\\", "\\">>), "\"", <<"\\", "\"">>)

RECURSIVE json_dumps(_)
\* json.dumps(v): the JSON text of v, with the separators ", " and ": "
json_dumps(v) ==
    CASE v.t = "null" -> <<"null">>
      [] v.t = "bool" -> IF v.b THEN <<"true">> ELSE <<"false">>
      [] v.t = "num"  -> <<Digit(v.n)>>
      [] v.t = "str"  -> <<"\"">> \o JsonStrBody(v.s) \o <<"\"">>
      [] v.t = "list" ->
            <<"[">> \o JoinWith(<<",", " ">>,
                                [i \in 1..Len(v.l) |-> json_dumps(v.l[i])])
                   \o <<"]">>
      [] OTHER ->
            <<"{">> \o JoinWith(<<",", " ">>,
                                [i \in 1..Len(v.m) |->
                                    <<"\"", v.m[i].k, "\"", ":", " ">>
                                    \o json_dumps(v.m[i].v)])
                   \o <<"}">>

RECURSIVE PyStr(_)
\* str(v)
PyStr(v) ==
    CASE v.t = "null" -> <<"None">>
      [] v.t = "bool" -> IF v.b THEN <<"True">> ELSE <<"False">>
      [] v.t = "num"  -> <<Digit(v.n)>>
      [] v.t = "str"  -> v.s
      [] v.t = "nan"  -> <<"nan">>
      [] v.t = "list" ->
            <<"[">> \o JoinWith(<<",", " ">>,
                                [i \in 1..Len(v.l) |-> PyStr(v.l[i])])
                   \o <<"]">>
      [] OTHER -> json_dumps(v)

(***************************************************************************)
(* The values of the model                                                 *)
(***************************************************************************)
SeqsUpTo(S, n) == UNION { [1..k -> S] : k \in 0..n }

Elems     == {JNum(1), JNum(2)}
Lists     == { JList(l) : l \in SeqsUpTo(Elems, MaxList) }
FieldVals == {JNull, JNum(1), JStr(<<"x">>)} \cup Lists

OptItem(k, vals) == {<<>>} \cup { <<Item(k, v)>> : v \in vals }

\* Flat mappings over the keys a, b
Payloads ==
    { JMap(p \o q) : p \in OptItem("a", FieldVals), q \in OptItem("b", FieldVals) }

\* Mappings with or without a "response" item
Wrapped ==
    { JMap(p \o q) :
        p \in OptItem("response", FieldVals \cup {JBool(TRUE)} \cup Payloads),
        q \in OptItem("b", {JStr(<<"x">>), JList(<<JNum(1), JNum(2)>>)}) }

JsonValues == Wrapped \cup Payloads \cup FieldVals \cup {JBool(TRUE)}

NotJsonTexts == { <<"not", " ", "json">>, <<"{">>, <<>> }

\* json.loads(text): the value whose JSON text it is; raises on a text
\* that is no JSON text
json_loads(text) ==
    IF \E v \in JsonValues : json_dumps(v) = text
    THEN [raised |-> FALSE, val |-> CHOOSE v \in JsonValues : json_dumps(v) = text]
    ELSE [raised |-> TRUE, val |-> JNull]

NormInputs ==
    JsonValues
    \cup { JStr(json_dumps(v)) : v \in JsonValues }
    \cup { JStr(x) : x \in NotJsonTexts }

(***************************************************************************)
(* ensure_dict, extract_response_fields                                    *)
(***************************************************************************)
ensure_dict(value) ==
    IF value = JNull THEN JMap(<<>>)
    ELSE IF IsMap(value) THEN value
    ELSE IF IsStr(value)
         THEN LET r == json_loads(value.s)
              IN  IF r.raised THEN JMap(<<Item("raw", value)>>) ELSE r.val
    ELSE JMap(<<Item("value", value)>>)

Returned(v) == [raised |-> FALSE, val |-> v]
Raises      == [raised |-> TRUE, val |-> JNull]
Pending     == [raised |-> FALSE, val |-> [t |-> "pending"]]

\* lines 46-52: the loop over payload.items()
NormalizeItems(payload) ==
    JMap([i \in 1..Len(payload.m) |->
            LET key == payload.m[i].k
                val == payload.m[i].v
            IN  IF IsList(val)
                THEN Item(key, JStr(JoinWith(<<",", " ">>,
                                   [j \in 1..Len(val.l) |-> PyStr(val.l[j])])))
                ELSE Item(key, val)])

extract_response_fields(extract_json) ==
    LET obj == ensure_dict(extract_json)
    IN  IF ~IsMap(obj) THEN Raises                \* obj.get: AttributeError
        ELSE LET payload == IF HasKey(obj, "response")
                            THEN Get(obj, "response") ELSE obj
             IN  IF ~IsMap(payload) THEN Raises   \* payload.items
                 ELSE Returned(NormalizeItems(payload))

IdleNorm == norm_in = JNull /\ norm_out = Pending

InitNorm ==
    /\ norm_in \in NormInputs
    /\ norm_out = Pending

Normalize ==
    /\ norm_out = Pending
    /\ norm_out' = extract_response_fields(norm_in)
    /\ UNCHANGED norm_in
    /\ UNCHANGED notNormVars

(***************************************************************************)
(* esc, escape_json_for_sql and the query texts                            *)
(***************************************************************************)
\* escape_json_for_sql that doubles the quotes only
escape_json_for_sql_QuotesOnly(json_str) ==
    Replace(json_str, "'", <<"'", "'">>)

escape_json_for_sql(json_str) ==
    Replace(Replace(json_str, "\\", <<"\\", "\\">>), "'", <<"'", "'">>)

esc(value) ==
    LET s == IF value = JNull THEN <<>> ELSE PyStr(value)
    IN  Replace(s, "'", <<"'", "'">>)

Alphabet == {"a", "'", "\\"}
Texts == SeqsUpTo(Alphabet, MaxStr) \cup { <<"O", "'", "Brien">> }
EscInputs == { JStr(x) : x \in Texts } \cup {JNull, JNum(1)}

\* A query is a sequence of parts: fixed text, or a string literal with the
\* value it was built from and the body put between the quotes
Sql(text) == [lit |-> FALSE, text |-> text, value |-> <<>>, body |-> <<>>]
Lit(value, body) == [lit |-> TRUE, text |-> "", value |-> value, body |-> body]

StagePath == "@AI_EXTRACT_DEMOS.EXTRACT_ANYTHING.DOCS_ROUTER_STAGE"

\* line 68
Sql_get_presigned_url(file_name) ==
    << Sql("SELECT GET_PRESIGNED_URL("), Lit(<<StagePath>>, <<StagePath>>),
       Sql(", "), Lit(file_name, file_name), Sql(") AS URL") >>

\* lines 225-229
Sql_load_prompts(doc_type) ==
    << Sql("SELECT field_name, retrieval_prompt, sort_order FROM DOC_TYPE_PROMPTS WHERE document_type = "),
       Lit(doc_type, esc(JStr(doc_type))),
       Sql(" ORDER BY sort_order, field_name") >>

\* line 237
Sql_upsert_doc_type(doc_type, description) ==
    << Sql("CALL UPSERT_DOC_TYPE("), Lit(doc_type, esc(JStr(doc_type))),
       Sql(", "), Lit(description, esc(JStr(description))), Sql(")") >>

\* lines 246-248, 272-274
Sql_replace_prompts(doc_type, payload) ==
    << Sql("CALL REPLACE_PROMPTS("), Lit(doc_type, esc(JStr(doc_type))),
       Sql(", PARSE_JSON("), Lit(payload, escape_json_for_sql(payload)),
       Sql("))") >>

\* lines 279-299
Sql_load_records(doc_type, approval_filter) ==
    LET c1 == IF doc_type # <<>> /\ doc_type # <<"All">>
              THEN << << Sql("document_type = "),
                         Lit(doc_type, esc(JStr(doc_type))) >> >>
              ELSE <<>>
        c2 == IF approval_filter = "Approved"
              THEN << <<Sql("approved = TRUE")>> >>
              ELSE IF approval_filter = "Not Approved"
              THEN << <<Sql("approved = FALSE")>> >>
              ELSE <<>>
        where_clauses == c1 \o c2
        where_sql == IF where_clauses # <<>>
                     THEN <<Sql(" WHERE ")>> \o JoinWith(<<Sql(" AND ")>>, where_clauses)
                     ELSE <<>>
    IN  <<Sql("SELECT ... FROM RAW r")>> \o where_sql
        \o <<Sql(" ORDER BY r.created_at DESC")>>

\* line 344
Sql_description(sel) ==
    << Sql("SELECT description FROM DOC_TYPES WHERE document_type = "),
       Lit(sel, esc(JStr(sel))) >>

\* line 430
Sql_process_one_file(fname) ==
    << Sql("CALL PROCESS_ONE_FILE("), Lit(fname, esc(JStr(fname))), Sql(")") >>

\* lines 525-527
Sql_approve_record(file_name, payload) ==
    << Sql("CALL APPROVE_RECORD("), Lit(file_name, esc(JStr(file_name))),
       Sql(", PARSE_JSON("), Lit(payload, escape_json_for_sql(payload)),
       Sql("))") >>

NoEsc == [esc |-> <<"?">>, json |-> <<"?">>]

InitEsc ==
    /\ esc_in \in EscInputs
    /\ esc_out = NoEsc
    /\ query = <<>>

IdleEsc ==
    /\ esc_in = JNull
    /\ esc_out = NoEsc
    /\ query = <<>>

CallEsc ==
    /\ esc_out' = [esc_out EXCEPT !.esc = esc(esc_in)]
    /\ UNCHANGED <<esc_in, query>>
    /\ UNCHANGED notEscVars

CallEscapeJson ==
    /\ IsStr(esc_in)
    /\ esc_out' = [esc_out EXCEPT !.json = escape_json_for_sql(esc_in.s)]
    /\ UNCHANGED <<esc_in, query>>
    /\ UNCHANGED notEscVars

\* The value as a field of the JSON payload the caller serializes
PayloadWith(x) == json_dumps(JMap(<<Item("k", JStr(x))>>))

BuildPresignedUrl ==
    /\ IsStr(esc_in)
    /\ query' = Sql_get_presigned_url(esc_in.s)
    /\ UNCHANGED <<esc_in, esc_out>>
    /\ UNCHANGED notEscVars

BuildLoadPrompts ==
    /\ IsStr(esc_in)
    /\ query' = Sql_load_prompts(esc_in.s)
    /\ UNCHANGED <<esc_in, esc_out>>
    /\ UNCHANGED notEscVars

BuildUpsertDocType ==
    /\ IsStr(esc_in)
    /\ \E d \in {<<>>, <<"'">>, <<"a", "'", "a">>} :
          query' = Sql_upsert_doc_type(esc_in.s, d)
    /\ UNCHANGED <<esc_in, esc_out>>
    /\ UNCHANGED notEscVars

BuildReplacePrompts ==
    /\ IsStr(esc_in)
    /\ query' = Sql_replace_prompts(esc_in.s, PayloadWith(esc_in.s))
    /\ UNCHANGED <<esc_in, esc_out>>
    /\ UNCHANGED notEscVars

BuildLoadRecords ==
    /\ IsStr(esc_in)
    /\ \E af \in {"All", "Approved", "Not Approved"} :
          query' = Sql_load_records(esc_in.s, af)
    /\ UNCHANGED <<esc_in, esc_out>>
    /\ UNCHANGED notEscVars

BuildDescription ==
    /\ IsStr(esc_in)
    /\ query' = Sql_description(esc_in.s)
    /\ UNCHANGED <<esc_in, esc_out>>
    /\ UNCHANGED notEscVars

BuildProcessOneFile ==
    /\ IsStr(esc_in)
    /\ query' = Sql_process_one_file(esc_in.s)
    /\ UNCHANGED <<esc_in, esc_out>>
    /\ UNCHANGED notEscVars

BuildApproveRecord ==
    /\ IsStr(esc_in)
    /\ query' = Sql_approve_record(esc_in.s, PayloadWith(esc_in.s))
    /\ UNCHANGED <<esc_in, esc_out>>
    /\ UNCHANGED notEscVars

(***************************************************************************)
(* replace_prompts                                                         *)
(***************************************************************************)
RECURSIVE LStrip(_)
LStrip(x) == IF x # <<>> /\ Head(x) = " " THEN LStrip(Tail(x)) ELSE x

RECURSIVE RStrip(_)
RStrip(x) ==
    IF x # <<>> /\ x[Len(x)] = " " THEN RStrip(SubSeq(x, 1, Len(x) - 1)) ELSE x

\* str.strip()
Strip(x) == RStrip(LStrip(x))

\* s.split(c, 1) of a string that contains c
SplitFirst(x, c) ==
    LET i == CHOOSE j \in 1..Len(x) :
                 x[j] = c /\ \A k \in 1..(j - 1) : x[k] # c
    IN  << SubSeq(x, 1, i - 1), SubSeq(x, i + 1, Len(x)) >>

IsDigit(c) == \E n \in 0..9 : Digit(n) = c

\* int(v): the number; raises on None, NaN and text that is no number
PyInt(v) ==
    IF v.t = "num" THEN [raised |-> FALSE, n |-> v.n]
    ELSE IF IsStr(v) /\ Len(Strip(v.s)) = 1 /\ IsDigit(Strip(v.s)[1])
         THEN [raised |-> FALSE,
               n |-> CHOOSE n \in 0..9 : Digit(n) = Strip(v.s)[1]]
    ELSE [raised |-> TRUE, n |-> 0]

\* lines 256-259
SortOrder(so) ==
    IF Strip(PyStr(so)) # <<>>
    THEN IF PyInt(so).raised THEN 0 ELSE PyInt(so).n
    ELSE 0

Row(f, pr, so) == [field_name |-> f, retrieval_prompt |-> pr, sort_order |-> so]

\* str(field_raw).strip() of a row cut to pieces as lines 253-266 do,
\* with str(None) = ""
PromptFields_BlankNone(row) ==
    LET field_raw  == row.field_name
        prompt_raw == row.retrieval_prompt
        cut == (prompt_raw \in {JNull, JStr(<<>>)}) /\ IsStr(field_raw)
               /\ HasChar(field_raw.s, ":")
        parts == SplitFirst(field_raw.s, ":")
        f == IF cut THEN JStr(parts[1]) ELSE field_raw
        q == IF cut THEN JStr(parts[2]) ELSE prompt_raw
    IN  [field  |-> IF f = JNull THEN <<>> ELSE Strip(PyStr(f)),
         prompt |-> IF q = JNull THEN <<>> ELSE Strip(PyStr(q))]

\* lines 253-266: field and prompt of one row
PromptFields(row) ==
    LET field_raw  == row.field_name
        prompt_raw == row.retrieval_prompt
        cut == (prompt_raw \in {JNull, JStr(<<>>)}) /\ IsStr(field_raw)
               /\ HasChar(field_raw.s, ":")
        parts == SplitFirst(field_raw.s, ":")
        f == IF cut THEN JStr(parts[1]) ELSE field_raw
        q == IF cut THEN JStr(parts[2]) ELSE prompt_raw
    IN  [field |-> Strip(PyStr(f)), prompt |-> Strip(PyStr(q))]

RECURSIVE PromptRows(_)
\* lines 251-269: the rows appended, in order
PromptRows(table) ==
    IF table = <<>> THEN <<>>
    ELSE LET fp == PromptFields(Head(table))
             so_val == SortOrder(Head(table).sort_order)
         IN  (IF fp.field = <<>> \/ fp.prompt = <<>> THEN <<>>
              ELSE <<[field_name |-> fp.field, retrieval_prompt |-> fp.prompt,
                      sort_order |-> so_val]>>)
             \o PromptRows(Tail(table))

RowJson(r) ==
    JMap(<< Item("field_name", JStr(r.field_name)),
            Item("retrieval_prompt", JStr(r.retrieval_prompt)),
            Item("sort_order", JNum(r.sort_order)) >>)

replace_prompts(doc_type, prompts_df) ==
    IF prompts_df.none \/ prompts_df.rows = <<>>
    THEN [sql  |-> Sql_replace_prompts(doc_type, <<"[", "]">>),
          rows |-> <<>>, ret |-> 0]
    ELSE LET rows == PromptRows(prompts_df.rows)
             payload == json_dumps(JList([i \in 1..Len(rows) |-> RowJson(rows[i])]))
         IN  [sql  |-> Sql_replace_prompts(doc_type, payload),
              rows |-> rows, ret |-> Len(rows)]

FieldCells ==
    { JNull, JStr(<<>>), JStr(<<"Name">>), JStr(<<" ", "Name", " ">>),
      JStr(<<"Name", ":", " ", "Full legal name">>),
      JStr(<<"a", ":", "b", ":", "c">>) }
PromptCells == { JNull, JStr(<<>>), JStr(<<" ">>), JStr(<<" ", "p", " ">>) }
SortCells ==
    { JNull, NaN, JNum(2), JStr(<<>>), JStr(<<"x">>), JStr(<<" ", "3">>) }

TableRows ==
    { Row(f, pr, JNum(2)) : f \in FieldCells, pr \in PromptCells }
    \cup { Row(JStr(<<"Name">>), JStr(<<" ", "p", " ">>), so) : so \in SortCells }

Tables ==
    { [none |-> FALSE, rows |-> t] : t \in SeqsUpTo(TableRows, MaxRows) }
    \cup { [none |-> TRUE, rows |-> <<>>] }

DocTypes == { <<"T">>, <<"O", "'", "B">> }

NoPrompts == [sql |-> <<>>, rows |-> <<>>, ret |-> 0 - 1]

InitPrompts ==
    /\ prm_in \in Tables
    /\ prm_out = NoPrompts

IdlePrompts ==
    /\ prm_in = [none |-> TRUE, rows |-> <<>>]
    /\ prm_out = NoPrompts

ReplacePrompts ==
    /\ \E doc_type \in DocTypes : prm_out' = replace_prompts(doc_type, prm_in)
    /\ UNCHANGED prm_in
    /\ UNCHANGED notPromptVars

(***************************************************************************)
(* get_file_type                                                           *)
(***************************************************************************)
ImageExts ==
    { <<"p","n","g">>, <<"j","p","g">>, <<"j","p","e","g">>,
      <<"g","i","f">>, <<"b","m","p">>, <<"w","e","b","p">> }

get_file_type(filename) ==
    IF filename = <<>> THEN "unknown"
    ELSE LET parts == SplitOn(Lower(filename), ".")
             ext   == IF HasChar(filename, ".") THEN parts[Len(parts)] ELSE <<>>
         IN  IF ext = <<"p","d","f">> THEN "pdf"
             ELSE IF ext \in ImageExts THEN "image"
             ELSE "unknown"

(***************************************************************************)
(* The files of the model                                                  *)
(***************************************************************************)
FileA == <<"a", ".", "p", "d", "f">>
FileB == <<"b", ".", "P", "D", "F">>
FileC == <<"c", ".", "p", "n", "g">>
FileD == <<"d", ".", "t", "a", "r", ".", "g", "z">>
Files == {FileA, FileB, FileC, FileD}

\* get_file_type of the model's files, computed once
FileTypes == [f \in Files |-> get_file_type(f)]

\* What a file name stands for in one session: whether fetch_stage_file gave
\* bytes, whether get_presigned_url gave a link, whether PdfDocument(bytes)
\* decodes, its page count len(pdf), and the page (0: none) whose
\* page.render raises.
StageEntry(b, u, d, p, x) ==
    [bytes |-> b, url |-> u, decodes |-> d, pages |-> p, bad |-> x]

PdfEntries ==
    { StageEntry(TRUE, u, TRUE, p, x) :
        u \in BOOLEAN, p \in 0..MaxPages, x \in 0..MaxPages }
    \cup { StageEntry(TRUE, u, FALSE, 0, 0) : u \in BOOLEAN }
    \cup { StageEntry(FALSE, u, FALSE, 0, 0) : u \in BOOLEAN }

StageEntries(f) ==
    IF f = FileA THEN { e \in PdfEntries : e.bad <= e.pages }
    ELSE IF f = FileB
         THEN { e \in PdfEntries : e.decodes /\ e.url /\ e.bad = 0 /\ e.pages >= 2 }
    ELSE IF f = FileC
         THEN { StageEntry(b, u, FALSE, 0, 0) : b, u \in BOOLEAN } \ 
              { StageEntry(TRUE, TRUE, FALSE, 0, 0) }
    ELSE { StageEntry(TRUE, u, FALSE, 0, 0) : u \in BOOLEAN }

\* The image and the other file are drawn together: the other file has a
\* link exactly when the image has none
Stages ==
    { (FileA :> a) @@ (FileB :> b) @@ (FileC :> c) @@
      (FileD :> StageEntry(TRUE, ~c.url, FALSE, 0, 0)) :
        a \in StageEntries(FileA), b \in StageEntries(FileB),
        c \in StageEntries(FileC) }

(***************************************************************************)
(* UI elements a render emits                                              *)
(***************************************************************************)
Elem(kind, text, a, b) == [kind |-> kind, text |-> text, cur |-> a, total |-> b]
Info(text)      == Elem("info", text, 0, 0)
Image(src, idx) == Elem("image", src, idx, 0)
Caption(c, t)   == Elem("caption", "Page {current} of {total}", c, t)
Link(label)     == Elem("link_button", label, 0, 0)
Button(label, disabled) == Elem("button", label, IF disabled THEN 1 ELSE 0, 0)
Slider(val, maxv)       == Elem("slider", "Page", val, maxv)

Unavailable == Info("PDF preview unavailable.")

(***************************************************************************)
(* The slider widget of the toolkit.  A widget's identity is made of its   *)
(* key and its parameters (here: file name, max_value, value); the state   *)
(* the user gave a widget is returned only to a call with the identity of  *)
(* the widget on screen, any other call creates a new widget that returns  *)
(* its default.  A value outside min_value..max_value raises.              *)
(***************************************************************************)
NoWidget == [id |-> <<>>, val |-> 0]

SliderId(file_name, maxv, value) == <<file_name, maxv, value>>

st_slider(w, file_name, maxv, value) ==
    IF value < 1 \/ value > maxv THEN [raised |-> TRUE, val |-> 0]
    ELSE IF w.id = SliderId(file_name, maxv, value)
         THEN [raised |-> FALSE, val |-> w.val]
         ELSE [raised |-> FALSE, val |-> value]

(***************************************************************************)
(* render_document_preview                                                 *)
(***************************************************************************)
NoEvent == [kind |-> "none", val |-> 0]
Click(k) == [kind |-> k, val |-> 0]
Slide(v) == [kind |-> "slide", val |-> v]

Raised(out, page, w) == [raised |-> TRUE, out |-> out, page |-> page, widget |-> w]
Done(out, page, w)   == [raised |-> FALSE, out |-> out, page |-> page, widget |-> w]

\* pdf[i].render(...).to_pil(); st.image(...): raises on the page that
\* does not render
RenderPage(entry, page_index) ==
    IF entry.bad = page_index + 1 THEN Raised(<<>>, 0, NoWidget)
    ELSE Done(<<Image("page", page_index)>>, 0, NoWidget)

\* PagedBody with the slider drawn from the page read from the session
\* state, before the button changes are applied
PagedBody_SliderFirst(file_name, entry, ev, w, page) ==
    LET total_pages == entry.pages
        current     == IF page = 0 THEN 1 ELSE page
        buttons     == << Button("prev", current <= 1),
                          Button("next", current >= total_pages) >>
        sl == st_slider(w, file_name, total_pages, current)
        nw == [id |-> SliderId(file_name, total_pages, current), val |-> sl.val]
        pg == RenderPage(entry, sl.val - 1)
        shown == buttons \o <<Slider(sl.val, total_pages)>>
    IN  IF sl.raised THEN Raised(buttons, page, NoWidget)
        ELSE IF pg.raised THEN Raised(shown, sl.val, nw)
        ELSE Done(shown \o pg.out \o <<Caption(sl.val, total_pages)>>, sl.val, nw)

\* PagedBody that starts again from page 1 when the slider on screen is not
\* this file's (the file previewed has changed)
PagedBody_ResetOnSwitch(file_name, entry, ev, w, page) ==
    LET total_pages == entry.pages
        other       == w.id = <<>> \/ w.id[1] # file_name
        current     == IF page = 0 \/ other THEN 1 ELSE page
        buttons     == << Button("prev", current <= 1),
                          Button("next", current >= total_pages) >>
        c1 == IF ev.kind = "prev" THEN Max(1, current - 1) ELSE current
        c2 == IF ev.kind = "next" THEN Min(total_pages, c1 + 1) ELSE c1
        sl == st_slider(w, file_name, total_pages, c2)
        nw == [id |-> SliderId(file_name, total_pages, c2), val |-> sl.val]
        pg == RenderPage(entry, sl.val - 1)
        shown == buttons \o <<Slider(sl.val, total_pages)>>
    IN  IF sl.raised THEN Raised(buttons, page, NoWidget)
        ELSE IF pg.raised THEN Raised(shown, sl.val, nw)
        ELSE Done(shown \o pg.out \o <<Caption(sl.val, total_pages)>>, sl.val, nw)

\* The multi-page branch, lines 107-152.  `page` is the value under
\* state_key before the pass (0: absent), w the slider on screen.
PagedBody(file_name, entry, ev, w, page) ==
    LET total_pages  == entry.pages
        current      == IF page = 0 THEN 1 ELSE page
        prev_clicked == ev.kind = "prev"
        next_clicked == ev.kind = "next"
        buttons      == << Button("prev", current <= 1),
                           Button("next", current >= total_pages) >>
        c1 == IF prev_clicked THEN Max(1, current - 1) ELSE current
        c2 == IF next_clicked THEN Min(total_pages, c1 + 1) ELSE c1
        sl == st_slider(w, file_name, total_pages, c2)
        c3 == IF sl.val # c2 THEN sl.val ELSE c2
        nw == [id |-> SliderId(file_name, total_pages, c2), val |-> sl.val]
        pg == RenderPage(entry, c3 - 1)
        shown == buttons \o <<Slider(sl.val, total_pages)>>
    IN  IF sl.raised THEN Raised(buttons, page, NoWidget)
        ELSE IF pg.raised THEN Raised(shown, c3, nw)
        ELSE Done(shown \o pg.out \o <<Caption(c3, total_pages)>>, c3, nw)

\* The body of the try statement, lines 96-152
PdfBody(file_name, entry, ev, w, page) ==
    IF ~entry.decodes THEN Raised(<<>>, page, NoWidget)
    ELSE IF entry.pages <= 0
         THEN Done(<<Info("PDF has no pages.")>>, page, NoWidget)
    ELSE IF entry.pages = 1
         THEN LET pg == RenderPage(entry, 0)
              IN  IF pg.raised THEN Raised(<<>>, page, NoWidget)
                  ELSE Done(pg.out \o <<Caption(1, 1)>>, page, NoWidget)
    ELSE PagedBody(file_name, entry, ev, w, page)

\* PdfTry without the except clause
PdfTry_NoExcept(file_name, entry, ev, w, page) ==
    PdfBody(file_name, entry, ev, w, page)

\* try ... except Exception: st.info("PDF preview unavailable.")
PdfTry(file_name, entry, ev, w, page) ==
    LET b == PdfBody(file_name, entry, ev, w, page)
    IN  IF b.raised THEN Done(b.out \o <<Unavailable>>, b.page, b.widget)
        ELSE b

render_document_preview(file_name, entry, ev, w, page) ==
    LET ftype      == FileTypes[file_name]
        file_url   == entry.url
        file_bytes == entry.bytes
    IN  IF ftype = "image"
        THEN Done(IF file_bytes THEN <<Image("bytes", 0)>>
                  ELSE IF file_url THEN <<Image("url", 0)>>
                  ELSE <<Info("No document data available.")>>,
                  page, NoWidget)
        ELSE IF ftype = "pdf"
        THEN LET t == IF file_bytes THEN PdfTry(file_name, entry, ev, w, page)
                      ELSE Done(<<>>, page, NoWidget)
                 tail == IF file_url THEN <<Link("Download PDF")>>
                         ELSE IF ~file_bytes THEN <<Unavailable>>
                         ELSE <<>>
             IN  IF t.raised THEN t ELSE [t EXCEPT !.out = t.out \o tail]
        ELSE Done(IF file_url THEN <<Link("Download file")>>
                  ELSE <<Info("Unsupported file type for preview.")>>,
                  page, NoWidget)

(***************************************************************************)
(* One script run that previews file f (Review tab, lines 536-548) after   *)
(* the event ev: a click on a navigation button of the frame on screen, a  *)
(* move of its slider, or anything else (ev = NoEvent: the record was      *)
(* selected, another widget changed).  A click may come from a button the  *)
(* new pass finds disabled: it was sent from the frame before.             *)
(***************************************************************************)
MaxClicks == MaxPages

NoScript == [on |-> FALSE, file |-> <<>>, evs |-> <<>>]

HasNav(fr, f) ==
    fr.file = f /\ \E i \in 1..Len(fr.out) : fr.out[i].kind = "button"

Events(f) ==
    {NoEvent}
    \cup (IF HasNav(frame, f) THEN {Click("prev"), Click("next")} ELSE {})
    \cup (IF widget.id # <<>> /\ widget.id[1] = f
          THEN {Slide(v) : v \in (1..widget.id[2]) \ {widget.val}}
          ELSE {})

NextScript(f, ev, r) ==
    IF ~script.on THEN script
    ELSE IF script.file = <<>>
         THEN IF ev = NoEvent /\ stage[f].pages >= 2
              THEN [on |-> TRUE, file |-> f, evs |-> <<>>]
              ELSE NoScript
    ELSE IF f = script.file /\ ev.kind \in {"prev", "next"}
            /\ Len(script.evs) < MaxClicks
         THEN [script EXCEPT !.evs = Append(@, ev.kind)]
    ELSE NoScript

\* What one pass leaves behind when the link and the bytes it got for f are
\* those of entry
Pass(f, ev, entry) ==
    LET w == IF ev.kind = "slide" THEN [widget EXCEPT !.val = ev.val] ELSE widget
        r == render_document_preview(f, entry, ev, w, session_state[f])
    IN  /\ session_state' = [session_state EXCEPT ![f] = r.page]
        /\ widget' = r.widget
        /\ frame' = [file |-> f, raised |-> r.raised, out |-> r.out]
        /\ script' = NextScript(f, ev, r)
        /\ sliderUsed' = (sliderUsed \/ ev.kind = "slide")
        /\ switched' = (frame.file # <<>> /\ frame.file # f)

Preview(f, ev) ==
    /\ Pass(f, ev, stage[f])
    /\ UNCHANGED stage
    /\ UNCHANGED notPreviewVars

InitPreview ==
    /\ stage \in Stages
    /\ session_state = [f \in Files |-> 0]
    /\ widget = NoWidget
    /\ frame = [file |-> <<>>, raised |-> FALSE, out |-> <<>>]
    /\ script = [on |-> TRUE, file |-> <<>>, evs |-> <<>>]
    /\ sliderUsed = FALSE
    /\ switched = FALSE

IdlePreview ==
    /\ stage = <<>>
    /\ session_state = <<>>
    /\ widget = NoWidget
    /\ frame = [file |-> <<>>, raised |-> FALSE, out |-> <<>>]
    /\ script = NoScript
    /\ sliderUsed = FALSE
    /\ switched = FALSE

(***************************************************************************)
(* One session of script runs (lines 199-548).  Every user interaction     *)
(* runs the script from top to bottom: session, Prompts tab, Upload tab,   *)
(* Review tab.  An exception nobody catches ends the run where it is       *)
(* raised; st.stop() and st.rerun() end it too.                            *)
(*                                                                         *)
(* The backend is what the tables behind the queries hold: the document    *)
(* types, the prompt rows of each type and the status of the record of     *)
(* each file.  The stored procedures are not part of the source file;      *)
(* they are taken to do what their names and the comments at their call    *)
(* sites say.                                                              *)
(***************************************************************************)
New == <<"(New)">>
All == <<"All">>

Types == { <<"T">> }

\* the files the user can put into st.file_uploader
UploadFiles == { FileA }

\* the tables the user can leave in the prompt editor
EditedTables ==
    { [none |-> FALSE, rows |-> <<>>],
      [none |-> FALSE,
       rows |-> << Row(JStr(<<"Name">>), JStr(<<" ", "p", " ">>), JNum(2)) >>] }

InitBackend ==
    [types   |-> {},
     prompts |-> [d \in Types |-> <<>>],
     records |-> <<>>]

UPSERT_DOC_TYPE(b, doc_type) == [b EXCEPT !.types = @ \cup {doc_type}]
REPLACE_PROMPTS(b, doc_type, rows) == [b EXCEPT !.prompts[doc_type] = rows]
\* records: file name -> "new" or "approved", for the files that have one
PutRecord(records, f, status) ==
    [g \in DOMAIN records \cup {f} |-> IF g = f THEN status ELSE records[g]]
PROCESS_ONE_FILE(b, fname) ==
    [b EXCEPT !.records = PutRecord(@, fname, "new")]
APPROVE_RECORD(b, file_name) ==
    [b EXCEPT !.records = PutRecord(@, file_name, "approved")]

(***************************************************************************)
(* st.cache_data.  The key of an entry is made of the arguments whose      *)
(* parameter name does not start with an underscore: _buster and _session  *)
(* are left out of it.  An entry of a function declared with ttl=10 is     *)
(* dropped once it is 10 seconds old (ExpireCache); an entry of            *)
(* fetch_stage_file is kept for the whole session.                         *)
(***************************************************************************)
Key_list_doc_types(buster) == <<>>
Key_load_prompts(doc_type, buster) == <<doc_type>>
Key_load_records(doc_type, approval_filter, buster) ==
    <<doc_type, approval_filter>>
Key_fetch_stage_file(file_name) == <<file_name>>

NoCache ==
    [list_doc_types |-> {}, load_prompts |-> {}, load_records |-> {},
     fetch_stage_file |-> {}]

TtlCaches == {"list_doc_types", "load_prompts", "load_records"}

Hit(entries, k) == \E e \in entries : e.key = k
Cached(entries, k) == (CHOOSE e \in entries : e.key = k).val
Store(entries, k, v) ==
    {e \in entries : e.key # k} \cup {[key |-> k, val |-> v]}

(***************************************************************************)
(* A script run threads a record s through its steps:                      *)
(*   b, c, n   backend, cache and _cache_buster as the run has left them   *)
(*   end       "run" while the script is running, then how it ended        *)
(*   msgs      st.success / st.warning / st.error / st.info shown          *)
(*   calls     the external calls issued, in order, with their outcome     *)
(*   wrote     a call that changes the backend has succeeded               *)
(*   latest    the "live preview of saved prompts": the type and its rows  *)
(*   dtypes    what list_doc_types returned to the Review tab              *)
(*   recs      what load_records returned to the Review tab                *)
(* F is the set of external calls that fail in this run.                   *)
(***************************************************************************)
Call(name, arg) == [call |-> name, arg |-> arg]

WriteCalls ==
    {"put_stream", "UPSERT_DOC_TYPE", "REPLACE_PROMPTS", "PROCESS_ONE_FILE",
     "APPROVE_RECORD"}

Exec(s, c, F) ==
    [s EXCEPT !.calls = Append(@, [call |-> c.call, arg |-> c.arg,
                                    ok |-> c \notin F]),
              !.wrote = @ \/ (c.call \in WriteCalls /\ c \notin F)]

Msg(kind, text, n) == [kind |-> kind, text |-> text, n |-> n]
Say(s, m) == [s EXCEPT !.msgs = Append(@, m)]

NotRead == [read |-> FALSE]
ReadVal(v) == [read |-> TRUE, val |-> v]

Crash(s) == [s EXCEPT !.end = "crash"]
Invalid(s) == [s EXCEPT !.end = "invalid"]

\* lines 213-214
bump_cache(s) == [s EXCEPT !.n = @ + 1]

\* lines 217-220
list_doc_types(s, F) ==
    LET k == Key_list_doc_types(s.n)
        c == Call("list_doc_types", <<>>)
    IN  IF Hit(s.c.list_doc_types, k)
        THEN [s |-> s, raised |-> FALSE, val |-> Cached(s.c.list_doc_types, k)]
        ELSE IF c \in F
        THEN [s |-> Exec(s, c, F), raised |-> TRUE, val |-> {}]
        ELSE [s |-> [Exec(s, c, F) EXCEPT
                        !.c.list_doc_types = Store(@, k, s.b.types)],
              raised |-> FALSE, val |-> s.b.types]

\* lines 223-232
load_prompts(s, doc_type, F) ==
    LET k == Key_load_prompts(doc_type, s.n)
        c == Call("load_prompts", doc_type)
        rows == IF doc_type \in Types THEN s.b.prompts[doc_type] ELSE <<>>
    IN  IF Hit(s.c.load_prompts, k)
        THEN [s |-> s, raised |-> FALSE, val |-> Cached(s.c.load_prompts, k)]
        ELSE IF c \in F
        THEN [s |-> Exec(s, c, F), raised |-> TRUE, val |-> <<>>]
        ELSE [s |-> [Exec(s, c, F) EXCEPT
                        !.c.load_prompts = Store(@, k, rows)],
              raised |-> FALSE, val |-> rows]

\* lines 277-299, with both filters at "All"
load_records(s, doc_type, approval_filter, F) ==
    LET k == Key_load_records(doc_type, approval_filter, s.n)
        c == Call("load_records", <<>>)
    IN  IF Hit(s.c.load_records, k)
        THEN [s |-> s, raised |-> FALSE, val |-> Cached(s.c.load_records, k)]
        ELSE IF c \in F
        THEN [s |-> Exec(s, c, F), raised |-> TRUE, val |-> s.b.records]
        ELSE [s |-> [Exec(s, c, F) EXCEPT
                        !.c.load_records = Store(@, k, s.b.records)],
              raised |-> FALSE, val |-> s.b.records]

\* lines 75-81: no try/except, the exception of the read goes to the caller
fetch_stage_file(s, file_name, F) ==
    LET k == Key_fetch_stage_file(file_name)
        c == Call("fetch_stage_file", file_name)
    IN  IF Hit(s.c.fetch_stage_file, k)
        THEN [s |-> s, raised |-> FALSE]
        ELSE IF c \in F
        THEN [s |-> Exec(s, c, F), raised |-> TRUE]
        ELSE [s |-> [Exec(s, c, F) EXCEPT
                        !.c.fetch_stage_file = Store(@, k, TRUE)],
              raised |-> FALSE]

\* lines 65-72: the exception is caught inside and None is returned
get_presigned_url(s, file_name, F) ==
    Exec(s, Call("get_presigned_url", file_name), F)

(***************************************************************************)
(* Save Prompts (lines 383-401), inside one try/except.  Each definition   *)
(* is one statement of the handler and hands the run to the next one.      *)
(***************************************************************************)
\* lines 400-401
SaveFailed(s) == Say(s, Msg("error", "Error saving prompts", 0))

\* lines 395-397
SavePreview(r, dtype_val) ==
    IF r.raised THEN SaveFailed(r.s)
    ELSE [r.s EXCEPT !.latest = [read |-> TRUE, doc_type |-> dtype_val,
                                 val |-> r.val]]

\* lines 392-399
SaveReport(s, dtype_val, inserted, F) ==
    IF inserted > 0
    THEN SavePreview(load_prompts(
                         Say(s, Msg("success", "Prompts saved", inserted)),
                         dtype_val, F),
                     dtype_val)
    ELSE Say(s, Msg("warning", "No prompts saved", 0))

\* lines 388-391: replace_prompts has returned rp, then _bump_cache()
SaveReplaced(s, dtype_val, rp, F) ==
    SaveReport(bump_cache([s EXCEPT
                              !.b = REPLACE_PROMPTS(@, dtype_val, rp.rows)]),
               dtype_val, rp.ret, F)

\* line 388
SaveReplace(s, dtype_val, edited, F) ==
    LET re == Call("REPLACE_PROMPTS", dtype_val)
    IN  IF re \in F THEN SaveFailed(Exec(s, re, F))
        ELSE SaveReplaced(Exec(s, re, F), dtype_val,
                          replace_prompts(dtype_val, edited), F)

\* line 387
SavePrompts(s, dtype_val, edited, F) ==
    LET up == Call("UPSERT_DOC_TYPE", dtype_val)
    IN  IF up \in F THEN SaveFailed(Exec(s, up, F))
        ELSE SaveReplace([Exec(s, up, F) EXCEPT
                             !.b = UPSERT_DOC_TYPE(@, dtype_val)],
                         dtype_val, edited, F)

(***************************************************************************)
(* Prompts tab (lines 332-403)                                             *)
(***************************************************************************)
\* lines 359-401: data = load_prompts(...) has returned r
PromptsLoaded(r, active_type, in, F) ==
    IF r.raised THEN Crash(r.s)
    ELSE IF in.ev = "save"
    THEN IF active_type = <<>> THEN Invalid(r.s)
         ELSE SavePrompts(r.s, active_type, in.edited, F)
    ELSE r.s

\* lines 358-361
PromptsLoad(s, active_type, in, F) ==
    PromptsLoaded(IF active_type # <<>> THEN load_prompts(s, active_type, F)
                  ELSE [s |-> s, raised |-> FALSE, val |-> <<>>],
                  active_type, in, F)

\* lines 354-357
PromptsRefresh(s, active_type, in, F) ==
    PromptsLoad(IF in.ev = "refresh" THEN bump_cache(s) ELSE s,
                active_type, in, F)

\* lines 339-347
PromptsType(s, in, F) ==
    LET de == Call("description", in.sel)
    IN  IF in.sel = New THEN PromptsRefresh(s, in.new_type, in, F)
        ELSE IF de \in F THEN Crash(Exec(s, de, F))
        ELSE PromptsRefresh(Exec(s, de, F), in.sel, in, F)

\* lines 334-338: list_doc_types has returned r
PromptsListed(r, in, F) ==
    IF r.raised THEN Crash(r.s)
    ELSE IF in.sel \notin ({New} \cup r.val) THEN Invalid(r.s)
    ELSE PromptsType(r.s, in, F)

PromptsTab(s, in, F) == PromptsListed(list_doc_types(s, F), in, F)

(***************************************************************************)
(* Upload & Process (lines 411-440)                                        *)
(***************************************************************************)
\* lines 415-424: u = [s, uploaded, errors, filenames]
PutOne(u, f, F) ==
    IF Call("put_stream", f) \in F
    THEN [u EXCEPT !.s = Exec(@, Call("put_stream", f), F),
                   !.errors = Append(@, f)]
    ELSE [u EXCEPT !.s = Exec(@, Call("put_stream", f), F),
                   !.uploaded = @ + 1,
                   !.filenames = Append(@, f)]

RECURSIVE put_files(_, _, _)
put_files(u, files, F) ==
    IF files = <<>> THEN u
    ELSE put_files(PutOne(u, Head(files), F), Tail(files), F)

RECURSIVE process_files(_, _, _)
\* lines 428-429: stops at the first call that raises
process_files(s, filenames, F) ==
    IF filenames = <<>> THEN [s |-> s, raised |-> FALSE]
    ELSE IF Call("PROCESS_ONE_FILE", Head(filenames)) \in F
    THEN [s |-> Exec(s, Call("PROCESS_ONE_FILE", Head(filenames)), F),
          raised |-> TRUE]
    ELSE process_files(
             [Exec(s, Call("PROCESS_ONE_FILE", Head(filenames)), F)
                 EXCEPT !.b = PROCESS_ONE_FILE(@, Head(filenames))],
             Tail(filenames), F)

\* lines 432-439
UploadReport(s, uploaded, errors) ==
    IF uploaded > 0 /\ errors = <<>>
    THEN Say(s, Msg("success", "Uploaded and processed", uploaded))
    ELSE IF uploaded > 0
    THEN Say(s, Msg("warning", "Uploaded with some errors", uploaded))
    ELSE Say(s, Msg("error", "No files uploaded", 0))

\* lines 425-431: the try block has ended in p
UploadProcessed(p, u) ==
    UploadReport(p.s, u.uploaded,
                 IF p.raised THEN Append(u.errors, <<"Processing error">>)
                 ELSE u.errors)

\* as UploadRefresh, but every selected file is processed, uploaded or not
UploadRefresh_ProcessAll(u, F) ==
    UploadProcessed(
        IF Call("REFRESH", <<>>) \in F
        THEN [s |-> Exec(u.s, Call("REFRESH", <<>>), F), raised |-> TRUE]
        ELSE process_files(Exec(u.s, Call("REFRESH", <<>>), F),
                           u.filenames \o u.errors, F),
        u)

\* lines 425-429: the uploads have ended in u
UploadRefresh(u, F) ==
    UploadProcessed(
        IF Call("REFRESH", <<>>) \in F
        THEN [s |-> Exec(u.s, Call("REFRESH", <<>>), F), raised |-> TRUE]
        ELSE process_files(Exec(u.s, Call("REFRESH", <<>>), F),
                           u.filenames, F),
        u)

UploadAndProcess(s, files, F) ==
    UploadRefresh(put_files([s |-> s, uploaded |-> 0, errors |-> <<>>,
                             filenames |-> <<>>], files, F), F)

UploadTab(s, in, F) ==
    IF in.ev = "upload"
    THEN IF in.files = <<>> THEN Invalid(s)
         ELSE UploadAndProcess(s, in.files, F)
    ELSE s

(***************************************************************************)
(* Review tab (lines 441-548), both filters left at "All"                  *)
(***************************************************************************)
\* line 540: fetch_stage_file has returned r
PreviewFetched(r) ==
    IF r.raised THEN Crash(r.s) ELSE [r.s EXCEPT !.end = "done"]

\* lines 536-548
PreviewPane(s, file_name, F) ==
    PreviewFetched(
        fetch_stage_file(get_presigned_url(s, file_name, F), file_name, F))

\* lines 513-534
ApproveAndSave(s, file_name, F) ==
    LET c == Call("APPROVE_RECORD", file_name)
    IN  IF c \in F
        THEN PreviewPane(Say(Exec(s, c, F),
                             Msg("error", "Error saving approval", 0)),
                         file_name, F)
        ELSE [bump_cache([Exec(s, c, F) EXCEPT
                             !.b = APPROVE_RECORD(@, file_name)])
                 EXCEPT !.c.load_records = {}, !.end = "rerun"]

\* lines 453-548: load_records has returned r
ReviewLoaded(r, in, F) ==
    IF r.raised THEN Crash(r.s)
    ELSE IF DOMAIN r.val = {}
    THEN IF in.ev = "approve" THEN Invalid(r.s)
         ELSE [Say(r.s, Msg("info", "No records found", 0))
                  EXCEPT !.end = "stop", !.recs = ReadVal(r.val)]
    ELSE IF in.selected \notin DOMAIN r.val THEN Invalid(r.s)
    ELSE IF in.ev = "approve"
    THEN ApproveAndSave([r.s EXCEPT !.recs = ReadVal(r.val)], in.selected, F)
    ELSE PreviewPane([r.s EXCEPT !.recs = ReadVal(r.val)], in.selected, F)

\* lines 443-452: list_doc_types has returned r
ReviewListed(r, in, F) ==
    IF r.raised THEN Crash(r.s)
    ELSE ReviewLoaded(load_records([r.s EXCEPT !.dtypes = ReadVal(r.val)],
                                   All, All, F),
                      in, F)

ReviewTab(s, in, F) == ReviewListed(list_doc_types(s, F), in, F)

(***************************************************************************)
(* The script, top to bottom (lines 199-548)                               *)
(***************************************************************************)
Continue(s, in, F, tab) ==
    IF s.end # "run" THEN s
    ELSE IF tab = "upload" THEN UploadTab(s, in, F)
    ELSE ReviewTab(s, in, F)

Script(s, in, F) ==
    IF Call("get_active_session", <<>>) \in F
    THEN [Say(Exec(s, Call("get_active_session", <<>>), F),
              Msg("error", "Error getting Snowflake session", 0))
             EXCEPT !.end = "stop"]
    ELSE Continue(Continue(PromptsTab(
                               Exec(s, Call("get_active_session", <<>>), F),
                               in, F),
                           in, F, "upload"),
                  in, F, "review")

(***************************************************************************)
(* What the user has set when a run starts, and which calls fail in it     *)
(***************************************************************************)
Input(ev, sel, new_type, edited, files, selected) ==
    [ev |-> ev, sel |-> sel, new_type |-> new_type, edited |-> edited,
     files |-> files, selected |-> selected]

\* the type selected or typed in the Prompts tab: <<sel, new_type>>
TypeChoices == {<<New, <<>>>>} \cup UNION {{<<New, d>>, <<d, <<>>>>} : d \in Types}

\* the files of st.file_uploader, in the order they were added
FileLists ==
    {fs \in SeqsUpTo(UploadFiles, Cardinality(UploadFiles)) :
        fs # <<>> /\ \A i, j \in 1..Len(fs) : i # j => fs[i] # fs[j]}

\* The calls that fail in a run: any of the uploads, and at most one of the
\* other calls the run makes
Issued(s) == {Call(s.calls[i].call, s.calls[i].arg) : i \in 1..Len(s.calls)}

PutCalls(in) == {Call("put_stream", in.files[i]) : i \in 1..Len(in.files)}

NoRun ==
    [ev |-> "none", end |-> "done", msgs |-> <<>>, wrote |-> FALSE,
     latest |-> NotRead, dtypes |-> NotRead, recs |-> NotRead]

Begin(ev) ==
    [b |-> backend, c |-> cache, n |-> cache_buster, end |-> "run",
     msgs |-> <<>>, calls |-> <<>>, wrote |-> FALSE, latest |-> NotRead,
     dtypes |-> NotRead, recs |-> NotRead]

\* One script run after the user's interaction `in`
Ended(s, ev) ==
    /\ s.end # "invalid"
    /\ s.n <= MaxBumps
    /\ backend' = s.b
    /\ cache' = s.c
    /\ cache_buster' = s.n
    /\ run' = [ev |-> ev, end |-> s.end, msgs |-> s.msgs, wrote |-> s.wrote,
               latest |-> s.latest, dtypes |-> s.dtypes, recs |-> s.recs]
    /\ UNCHANGED notAppVars

Failures(in) ==
    UNION { {P} \cup {P \cup {c} : c \in Issued(Script(Begin(in.ev), in, P))
                                        \ PutCalls(in)}
            : P \in SUBSET PutCalls(in) }

Run(in) ==
    \E F \in Failures(in) : Ended(Script(Begin(in.ev), in, F), in.ev)

NoTable == [none |-> TRUE, rows |-> <<>>]

\* another widget changed (a type selected or typed, a record selected)
Open ==
    /\ run.end # "rerun"
    /\ \E tc \in TypeChoices, f \in UploadFiles :
          Run(Input("open", tc[1], tc[2], NoTable, <<>>, f))

\* st.rerun() of Approve & Save: the script runs again at once
Rerun ==
    /\ run.end = "rerun"
    /\ \E f \in UploadFiles : Run(Input("rerun", New, <<>>, NoTable, <<>>, f))

Refresh ==
    /\ run.end # "rerun"
    /\ \E tc \in TypeChoices, f \in UploadFiles :
          Run(Input("refresh", tc[1], tc[2], NoTable, <<>>, f))

SaveClick ==
    /\ run.end # "rerun"
    /\ \E tc \in TypeChoices, edited \in EditedTables, f \in UploadFiles :
          Run(Input("save", tc[1], tc[2], edited, <<>>, f))

UploadClick ==
    /\ run.end # "rerun"
    /\ \E files \in FileLists, f \in UploadFiles :
          Run(Input("upload", New, <<>>, NoTable, files, f))

ApproveClick ==
    /\ run.end # "rerun"
    /\ \E f \in UploadFiles :
          Run(Input("approve", New, <<>>, NoTable, <<>>, f))

\* ten seconds have passed since the entries of some ttl caches were made
ExpireCache ==
    /\ run.end # "rerun"
    /\ \E fns \in SUBSET TtlCaches :
          /\ \E fn \in fns : cache[fn] # {}
          /\ cache' = [fn \in DOMAIN cache |->
                          IF fn \in fns THEN {} ELSE cache[fn]]
    /\ UNCHANGED <<backend, cache_buster, run>>
    /\ UNCHANGED notAppVars

InitApp ==
    /\ backend = InitBackend
    /\ cache = NoCache
    /\ cache_buster = 0
    /\ run = NoRun

IdleApp == InitApp

(***************************************************************************)
(* One click on Upload & Process (lines 411-439) on its own: any list of   *)
(* up to MaxFiles files with distinct names, any set of failing calls.     *)
(***************************************************************************)
SelectedLists ==
    {fs \in SeqsUpTo(Files, MaxFiles) :
        fs # <<>> /\ \A i, j \in 1..Len(fs) : i # j => fs[i] # fs[j]}

\* the calls the handler can make for the files fs
UploadCalls(fs) ==
    {Call("REFRESH", <<>>)}
    \cup {Call(n, fs[i]) : n \in {"put_stream", "PROCESS_ONE_FILE"},
                           i \in 1..Len(fs)}

NoUpload == [done |-> FALSE, calls |-> <<>>, msgs |-> <<>>]

UploadInputs ==
    UNION {{[files |-> fs, fails |-> F] : F \in SUBSET UploadCalls(fs)} :
           fs \in SelectedLists}

InitUpload ==
    /\ upl_in \in UploadInputs
    /\ upl_out = NoUpload

IdleUpload ==
    /\ upl_in = [files |-> <<>>, fails |-> {}]
    /\ upl_out = NoUpload

Uploaded(s) == [done |-> TRUE, calls |-> s.calls, msgs |-> s.msgs]

Upload ==
    /\ ~upl_out.done
    /\ upl_out' = Uploaded(UploadAndProcess(Begin("upload"), upl_in.files,
                                            upl_in.fails))
    /\ UNCHANGED upl_in
    /\ UNCHANGED notUploadVars

(***************************************************************************)
(* The preview of a name whose file is uploaded again.  put_stream is      *)
(* called with overwrite=True (lines 418-420), so a name on the stage can  *)
(* come to stand for another document.  get_presigned_url and              *)
(* fetch_stage_file are cached by name with no ttl (lines 65, 75): a pass  *)
(* gets the new document only when the toolkit holds no entry for the      *)
(* name, that is, after its cache has been cleared; the page state lives   *)
(* in st.session_state and outlives the cache.                             *)
(***************************************************************************)
\* the documents a PDF name can stand for
Documents == { StageEntry(TRUE, TRUE, TRUE, p, 0) : p \in 1..MaxPages }

PdfFiles == { f \in Files : FileTypes[f] = "pdf" }

\* lines 539-540: what the two cached functions give for the name
Fetched(f) ==
    IF Hit(cache.fetch_stage_file, Key_fetch_stage_file(f))
    THEN Cached(cache.fetch_stage_file, Key_fetch_stage_file(f))
    ELSE stage[f]

InitReupload ==
    /\ stage \in { s \in Stages :
                     /\ \A f \in PdfFiles : s[f] \in Documents
                     /\ s[FileC] = StageEntry(TRUE, FALSE, FALSE, 0, 0) }
    /\ session_state = [f \in Files |-> 0]
    /\ widget = NoWidget
    /\ frame = [file |-> <<>>, raised |-> FALSE, out |-> <<>>]
    /\ script = NoScript
    /\ sliderUsed = FALSE
    /\ switched = FALSE

\* lines 536-548: one pass of the preview pane for the record of f
Review(f, ev) ==
    /\ Pass(f, ev, Fetched(f))
    /\ cache' = [cache EXCEPT !.fetch_stage_file =
                     Store(@, Key_fetch_stage_file(f), Fetched(f))]
    /\ UNCHANGED <<stage, backend, cache_buster, run>>
    /\ UNCHANGED <<normVars, escVars, promptVars, uploadVars>>

\* lines 418-420: another document is put on the stage under the name f
Overwrite(f, e) ==
    /\ e # stage[f]
    /\ stage' = [stage EXCEPT ![f] = e]
    /\ UNCHANGED <<session_state, widget, frame, script, sliderUsed, switched>>
    /\ UNCHANGED notPreviewVars

\* the entries of st.cache_data are dropped
ClearCache ==
    /\ cache.fetch_stage_file # {}
    /\ cache' = NoCache
    /\ UNCHANGED <<backend, cache_buster, run>>
    /\ UNCHANGED notAppVars

(***************************************************************************)
(* Specifications                                                          *)
(***************************************************************************)
\* A preview session: any sequence of script runs that preview a file
NextPreview == \E f \in Files : \E ev \in Events(f) : Preview(f, ev)

StartPreview ==
    InitPreview /\ IdleNorm /\ IdleEsc /\ IdlePrompts /\ IdleApp /\ IdleUpload

SpecPreview == StartPreview /\ [][NextPreview]_vars

\* One call of extract_response_fields on any value of the model
NextNorm == Normalize

StartNorm ==
    InitNorm /\ IdlePreview /\ IdleEsc /\ IdlePrompts /\ IdleApp /\ IdleUpload

SpecNorm == StartNorm /\ [][NextNorm]_vars

\* Calls of the escape functions and of the query builders on one value
NextEsc ==
    \/ CallEsc
    \/ CallEscapeJson
    \/ BuildPresignedUrl
    \/ BuildLoadPrompts
    \/ BuildUpsertDocType
    \/ BuildReplacePrompts
    \/ BuildLoadRecords
    \/ BuildDescription
    \/ BuildProcessOneFile
    \/ BuildApproveRecord

StartEsc ==
    InitEsc /\ IdlePreview /\ IdleNorm /\ IdlePrompts /\ IdleApp /\ IdleUpload

SpecEsc == StartEsc /\ [][NextEsc]_vars

\* One call of replace_prompts on any table of the model
NextPrompts == ReplacePrompts

StartPrompts ==
    InitPrompts /\ IdlePreview /\ IdleNorm /\ IdleEsc /\ IdleApp /\ IdleUpload

SpecPrompts == StartPrompts /\ [][NextPrompts]_vars

\* One session: any sequence of script runs and cache expiries
NextApp ==
    \/ Open
    \/ Rerun
    \/ Refresh
    \/ SaveClick
    \/ UploadClick
    \/ ApproveClick
    \/ ExpireCache

StartApp ==
    InitApp /\ IdlePreview /\ IdleNorm /\ IdleEsc /\ IdlePrompts /\ IdleUpload

SpecApp == StartApp /\ [][NextApp]_vars

\* One click on Upload & Process
NextUpload == Upload

StartUpload ==
    InitUpload /\ IdlePreview /\ IdleNorm /\ IdleEsc /\ IdlePrompts /\ IdleApp

SpecUpload == StartUpload /\ [][NextUpload]_vars

\* Previews of names whose files are uploaded again in between
NextReupload ==
    \/ \E f \in Files : \E ev \in Events(f) : Review(f, ev)
    \/ \E f \in PdfFiles : \E e \in Documents : Overwrite(f, e)
    \/ ClearCache

StartReupload ==
    InitReupload /\ IdleNorm /\ IdleEsc /\ IdlePrompts /\ IdleApp /\ IdleUpload

SpecReupload == StartReupload /\ [][NextReupload]_vars

(***************************************************************************)
(* C1  pagination by the navigation buttons                                *)
(***************************************************************************)
RECURSIVE Walk(_, _, _)
\* The page the clamped state machine reaches from page p by the clicks evs
Walk(p, evs, n) ==
    IF evs = <<>> THEN p
    ELSE Walk(IF Head(evs) = "next" THEN Min(n, p + 1) ELSE Max(1, p - 1),
              Tail(evs), n)

AllNext(evs) == \A i \in 1..Len(evs) : evs[i] = "next"

HasElem(fr, e) == \E i \in 1..Len(fr.out) : fr.out[i] = e

\* Every pass of a PDF of N >= 2 pages in which 'next' ('previous') was
\* clicked, in a session without slider moves, ends with the persisted page
\* one higher if it was below N (one lower if it was above 1) and unchanged
\* at the bound.
C1_Step ==
    [][ \A f \in Files :
          (~sliderUsed /\ stage[f].pages >= 2 /\ HasNav(frame, f)) =>
            /\ Preview(f, Click("next")) =>
                  session_state'[f] =
                    IF session_state[f] < stage[f].pages
                    THEN session_state[f] + 1 ELSE stage[f].pages
            /\ Preview(f, Click("prev")) =>
                  session_state'[f] =
                    IF session_state[f] > 1
                    THEN session_state[f] - 1 ELSE 1 ]_vars

\* A session that renders a PDF of N >= 2 pages and then only clicks: the
\* page starts at 1; N-1 'next' reach N and one more stays at N;
\* 'previous' at page 1 stays at 1; next, next, previous with N = 3 ends
\* at page 2 under the caption "Page 2 of 3".
C1_Scenarios ==
    (script.on /\ script.file # <<>>) =>
        LET f == script.file
            n == stage[f].pages
            e == script.evs
        IN  /\ session_state[f] = Walk(1, e, n)
            /\ e = <<>> => session_state[f] = 1
            /\ (AllNext(e) /\ Len(e) = n - 1) => session_state[f] = n
            /\ (AllNext(e) /\ Len(e) = n) => session_state[f] = n
            /\ e = <<"prev">> => session_state[f] = 1
            /\ (e = <<"next", "next", "prev">> /\ n = 3) =>
                  /\ session_state[f] = 2
                  /\ stage[f].bad # 2 => HasElem(frame, Caption(2, 3))

\* C1: in render_document_preview, for a PDF with N >= 2 pages, from page 1
\* and without page-selection events, each 'next' pass adds exactly one
\* page below N and none at N, each 'previous' pass removes exactly one
\* above 1 and none at 1; hence the scenarios of C1_Scenarios.
C1_Pagination == C1_Step /\ []C1_Scenarios

C1_Witness ==
    /\ script.on /\ script.file = FileA
    /\ script.evs = <<"next", "next", "prev">>
    /\ stage[FileA].pages = 3
    /\ session_state[FileA] = 2
    /\ HasElem(frame, Caption(2, 3))

(***************************************************************************)
(* C8  the page state when the previewed file changes                      *)
(***************************************************************************)
\* C8 as claimed: the render of a multi-page PDF that follows a preview of
\* a different file starts from page 1, whatever page it was left on.
C8_ResetOnSwitch ==
    \A f \in Files :
        (switched /\ frame.file = f /\ stage[f].pages >= 2) =>
            session_state[f] = 1

\* C8 amended: the first render of a multi-page PDF in a session starts
\* from page 1; a render that follows a preview of a different file starts
\* from the page last persisted for that file name, without reset.
C8_ResumeOnSwitch ==
    [][ \A f \in Files :
          (frame.file # f /\ stage[f].pages >= 2 /\ Preview(f, NoEvent)) =>
            session_state'[f] =
                IF session_state[f] = 0 THEN 1 ELSE session_state[f] ]_vars

C8_Witness ==
    /\ switched /\ frame.file = FileA
    /\ stage[FileA].pages >= 2
    /\ session_state[FileA] = 2
    /\ session_state[FileB] = 2

(***************************************************************************)
(* C9  the render policy of category "pdf"                                 *)
(***************************************************************************)
\* The page of f whose rendering the last pass attempted
ShownPage(f) == IF stage[f].pages = 1 THEN 1 ELSE session_state[f]

InlineFailed(f) ==
    /\ stage[f].bytes
    /\ \/ ~stage[f].decodes
       \/ stage[f].pages >= 1 /\ stage[f].bad = ShownPage(f)

\* C9: for category "pdf", whatever the bytes, the link, the page count and
\* the decoding do, render_document_preview returns without raising; a
\* decode or render failure gives the "PDF preview unavailable."
\* placeholder; the download button is emitted exactly when a link exists;
\* without bytes and link the placeholder is emitted.
C9_PdfPolicy ==
    \A f \in Files :
        (frame.file = f /\ FileTypes[f] = "pdf") =>
            /\ ~frame.raised
            /\ InlineFailed(f) => HasElem(frame, Unavailable)
            /\ HasElem(frame, Link("Download PDF")) <=> stage[f].url
            /\ (~stage[f].bytes /\ ~stage[f].url) => HasElem(frame, Unavailable)

C9_Witness ==
    /\ frame.file = FileA
    /\ stage[FileA].bytes /\ stage[FileA].url
    /\ stage[FileA].pages = 3 /\ stage[FileA].bad = 2
    /\ session_state[FileA] = 2
    /\ HasElem(frame, Unavailable)
    /\ HasElem(frame, Link("Download PDF"))
    /\ ~frame.raised

(***************************************************************************)
(* C3, C4  the record normalizer                                           *)
(***************************************************************************)
\* The structure the normalizer works on: the value itself, or what a
\* string parses to (the string itself when it does not parse)
Structure(x) ==
    IF IsStr(x) /\ ~json_loads(x.s).raised THEN json_loads(x.s).val ELSE x

\* The payload of a mapping: the value under "response" when that is a
\* mapping, else the mapping itself
PayloadOf(d) ==
    IF HasKey(d, "response") /\ IsMap(Get(d, "response"))
    THEN Get(d, "response") ELSE d

\* flat is payload with every list value replaced by the ", "-join of the
\* string forms of its elements
IsFlatOf(flat, payload) ==
    /\ IsMap(flat)
    /\ Len(flat.m) = Len(payload.m)
    /\ \A i \in 1..Len(payload.m) :
          /\ flat.m[i].k = payload.m[i].k
          /\ flat.m[i].v =
                IF IsList(payload.m[i].v)
                THEN JStr(JoinWith(<<",", " ">>,
                        [j \in 1..Len(payload.m[i].v.l) |->
                            PyStr(payload.m[i].v.l[j])]))
                ELSE payload.m[i].v

ExampleIn ==
    JMap(<< Item("response",
                 JMap(<< Item("a", JList(<<JNum(1), JNum(2)>>)),
                         Item("b", JStr(<<"x">>)) >>)) >>)

ExampleOut ==
    JMap(<< Item("a", JStr(<<"1", ",", " ", "2">>)), Item("b", JStr(<<"x">>)) >>)

\* C3: for every input whose (parsed) structure is a mapping,
\* extract_response_fields returns the flat form of the value under
\* "response" when that value is a mapping and of the top-level mapping
\* otherwise; null gives the empty mapping and the example its result.
C3_PayloadRule ==
    norm_out # Pending =>
        /\ IsMap(Structure(norm_in)) =>
              /\ ~norm_out.raised
              /\ IsFlatOf(norm_out.val, PayloadOf(Structure(norm_in)))
        /\ norm_in = JNull => norm_out = Returned(JMap(<<>>))
        /\ norm_in = ExampleIn => norm_out = Returned(ExampleOut)

\* C4: the normalizer is total: for every input ensure_dict returns a
\* mapping and extract_response_fields returns a mapping without raising;
\* an unparseable string gives {"raw": string}, a value that is neither
\* null, a string nor a mapping gives {"value": value}.
C4_Total ==
    norm_out # Pending =>
        /\ IsMap(ensure_dict(norm_in))
        /\ ~norm_out.raised
        /\ IsMap(norm_out.val)
        /\ (IsStr(norm_in) /\ json_loads(norm_in.s).raised) =>
              ensure_dict(norm_in) = JMap(<<Item("raw", norm_in)>>)
        /\ (~IsStr(norm_in) /\ ~IsMap(norm_in) /\ norm_in # JNull) =>
              ensure_dict(norm_in) = JMap(<<Item("value", norm_in)>>)

(***************************************************************************)
(* C6, C10  escaping                                                       *)
(***************************************************************************)
RECURSIVE Doubled(_)
\* s with every single quote doubled
Doubled(s) ==
    IF s = <<>> THEN <<>>
    ELSE IF Head(s) = "'" THEN <<"'", "'">> \o Doubled(Tail(s))
    ELSE <<Head(s)>> \o Doubled(Tail(s))

RECURSIVE SqlUnescape(_)
\* The text a SQL string literal with body b denotes: two backslashes are
\* one backslash, two quotes one quote; a lone backslash or quote is an
\* error, marked "!"
SqlUnescape(b) ==
    IF b = <<>> THEN <<>>
    ELSE IF Len(b) >= 2 /\ b[1] \in {"\\", "'"} /\ b[2] = b[1]
         THEN <<b[1]>> \o SqlUnescape(SubSeq(b, 3, Len(b)))
    ELSE IF b[1] \in {"\\", "'"} THEN <<"!">> \o SqlUnescape(Tail(b))
    ELSE <<b[1]>> \o SqlUnescape(Tail(b))

OBrien == <<"O", "'", "Brien">>

\* C6: esc(s) is s with every single quote doubled, esc("O'Brien") is
\* "O''Brien" and esc(None) is ""; the body escape_json_for_sql(p) makes
\* of a payload p, read back as a SQL string literal, is p.
C6_RoundTrip ==
    /\ (esc_out.esc # NoEsc.esc /\ IsStr(esc_in)) =>
            esc_out.esc = Doubled(esc_in.s)
    /\ (esc_out.esc # NoEsc.esc /\ esc_in = JStr(OBrien)) =>
            esc_out.esc = <<"O", "'", "'", "Brien">>
    /\ (esc_out.esc # NoEsc.esc /\ esc_in = JNull) => esc_out.esc = <<>>
    /\ esc_out.json # NoEsc.json => SqlUnescape(esc_out.json) = esc_in.s

C6_Witness ==
    /\ esc_in = JStr(<<"\\", "'", "a">>)
    /\ esc_out.esc = <<"\\", "'", "'", "a">>
    /\ esc_out.json = <<"\\", "\\", "'", "'", "a">>

RECURSIVE LiteralEnd(_, _)
\* The place of the quote that ends a string literal whose body starts at
\* t[i]: the first quote not followed by a second one (0: none)
LiteralEnd(t, i) ==
    IF i > Len(t) THEN 0
    ELSE IF t[i] # "'" THEN LiteralEnd(t, i + 1)
    ELSE IF i < Len(t) /\ t[i + 1] = "'" THEN LiteralEnd(t, i + 2)
    ELSE i

Quotes(t) == Cardinality({ i \in 1..Len(t) : t[i] = "'" })

\* C10: every string value put into a string literal of a query has its
\* single quotes doubled, so that the literal ends at the closing quote
\* written after the value.
C10_LiteralsEscaped ==
    \A k \in 1..Len(query) :
        query[k].lit =>
            /\ Quotes(query[k].body) = 2 * Quotes(query[k].value)
            /\ LiteralEnd(query[k].body \o <<"'">>, 1) = Len(query[k].body) + 1

(***************************************************************************)
(* C5  the prompt rows submitted                                           *)
(***************************************************************************)
\* The text of a cell; a blank cell (None) has none
CellText(c) == IF c = JNull THEN <<>> ELSE PyStr(c)

\* The integer of a sort_order cell, 0 when blank or unparseable
ExpectedSort(c) ==
    IF c.t = "num" THEN c.n
    ELSE IF IsStr(c) /\ Len(Strip(c.s)) = 1 /\ IsDigit(Strip(c.s)[1])
         THEN CHOOSE n \in 0..9 : Digit(n) = Strip(c.s)[1]
    ELSE 0

\* A row after normalization: split on the first colon when the prompt is
\* blank and the field has a colon, both trimmed
ExpectedRow(row) ==
    LET f == CellText(row.field_name)
        q == CellText(row.retrieval_prompt)
        cut == q = <<>> /\ HasChar(f, ":")
    IN  [field_name |-> Strip(IF cut THEN SplitFirst(f, ":")[1] ELSE f),
         retrieval_prompt |-> Strip(IF cut THEN SplitFirst(f, ":")[2] ELSE q),
         sort_order |-> ExpectedSort(row.sort_order)]

RECURSIVE ExpectedRows(_)
ExpectedRows(table) ==
    IF table = <<>> THEN <<>>
    ELSE LET r == ExpectedRow(Head(table))
         IN  (IF r.field_name = <<>> \/ r.retrieval_prompt = <<>> THEN <<>>
              ELSE <<r>>) \o ExpectedRows(Tail(table))

\* C5: the list replace_prompts submits is exactly the input rows, in
\* order, that have a non-empty field and prompt after normalization; no
\* submitted row has an empty field or prompt; the count returned is the
\* number of rows submitted.
C5_RowsSubmitted ==
    prm_out # NoPrompts =>
        /\ prm_out.rows = ExpectedRows(prm_in.rows)
        /\ prm_out.ret = Len(prm_out.rows)
        /\ \A i \in 1..Len(prm_out.rows) :
              /\ prm_out.rows[i].field_name # <<>>
              /\ prm_out.rows[i].retrieval_prompt # <<>>

(***************************************************************************)
(* C2  Read-after-write                                                    *)
(***************************************************************************)
Said(kind, text) ==
    \E i \in 1..Len(run.msgs) :
        run.msgs[i].kind = kind /\ run.msgs[i].text = text

\* the last run was a click on Save Prompts whose two procedure calls
\* succeeded
SaveSucceeded ==
    /\ run.ev = "save"
    /\ Said("success", "Prompts saved") \/ Said("warning", "No prompts saved")

\* the live preview of a successful save shows the rows just saved
C2_SavedPromptsShown ==
    (SaveSucceeded /\ run.latest.read)
        => run.latest.val = backend.prompts[run.latest.doc_type]

\* after a successful save, the Review tab lists the types of the backend
C2_SavedTypeListed ==
    (SaveSucceeded /\ run.dtypes.read) => run.dtypes.val = backend.types

\* after a successful approval, the rerun reads the records of the backend
C2_ApprovalRead ==
    (run.ev = "rerun" /\ run.recs.read) => run.recs.val = backend.records

\* C2: after a write action that completed successfully (Save Prompts,
\* Approve & Save), the next call of each cached reader (load_prompts,
\* list_doc_types, load_records) returns the data the backend holds after
\* the write, never a result cached before it.
C2_ReadAfterWrite ==
    C2_SavedPromptsShown /\ C2_SavedTypeListed /\ C2_ApprovalRead

(***************************************************************************)
(* C7  Failures of external calls                                          *)
(***************************************************************************)
\* C7: whatever the user does and whichever external call fails, the
\* script run ends without an uncaught exception.
C7_NoUncaughtException == run.end # "crash"

(***************************************************************************)
(* C11  The revision counter                                               *)
(***************************************************************************)
\* the step is a click on a button that writes, and the handler has
\* completed its writes
SaveDone == SaveClick /\ SaveSucceeded'
UploadDone == UploadClick /\ Said("success", "Uploaded and processed")'
ApproveDone == ApproveClick /\ run'.end = "rerun"

C11_StartsAtZero == run = NoRun => cache_buster = 0
C11_NeverDecreases == [][cache_buster' >= cache_buster]_vars
C11_SaveBumps == [][SaveDone => cache_buster' > cache_buster]_vars
C11_ApproveBumps == [][ApproveDone => cache_buster' > cache_buster]_vars
C11_UploadBumps == [][UploadDone => cache_buster' > cache_buster]_vars

\* C11: _cache_buster starts at 0, never decreases, and every click on
\* Save Prompts, Upload & Process or Approve & Save that writes to the
\* backend successfully increments it.
C11_RevisionCounter ==
    /\ cache_buster = 0
    /\ [][/\ cache_buster' >= cache_buster
          /\ (SaveDone \/ UploadDone \/ ApproveDone)
                => cache_buster' > cache_buster]_vars

(***************************************************************************)
(* C12  Upload & Process: order of the calls                               *)
(***************************************************************************)
\* the positions of the calls of one kind in the handler's trace
CallsNamed(name) ==
    {i \in 1..Len(upl_out.calls) : upl_out.calls[i].call = name}

\* position of a selected file in the uploader's list
FilePos(f) == CHOOSE k \in 1..Len(upl_in.files) : upl_in.files[k] = f

UploadSucceeded(f) ==
    \E i \in CallsNamed("put_stream") :
        upl_out.calls[i].arg = f /\ upl_out.calls[i].ok

\* one REFRESH, after the upload attempt of every selected file and before
\* every PROCESS_ONE_FILE
C12_RefreshBetween ==
    /\ Cardinality(CallsNamed("REFRESH")) = 1
    /\ \A k \in 1..Len(upl_in.files) :
          \E i \in CallsNamed("put_stream") :
              upl_out.calls[i].arg = upl_in.files[k]
    /\ \A r \in CallsNamed("REFRESH") :
          /\ \A i \in CallsNamed("put_stream") : i < r
          /\ \A i \in CallsNamed("PROCESS_ONE_FILE") : r < i

\* only uploaded files are processed, in upload order, none twice
C12_ProcessUploaded ==
    \A i \in CallsNamed("PROCESS_ONE_FILE") :
        /\ upl_out.calls[i].arg \in
              {upl_in.files[k] : k \in 1..Len(upl_in.files)}
        /\ UploadSucceeded(upl_out.calls[i].arg)
        /\ \A j \in CallsNamed("PROCESS_ONE_FILE") :
              i < j => FilePos(upl_out.calls[i].arg)
                           < FilePos(upl_out.calls[j].arg)

\* with no failing call every selected file is processed exactly once and
\* the success message reports their number
C12_AllProcessed ==
    upl_in.fails = {} =>
        /\ \A k \in 1..Len(upl_in.files) :
              Cardinality({i \in CallsNamed("PROCESS_ONE_FILE") :
                              upl_out.calls[i].arg = upl_in.files[k]}) = 1
        /\ upl_out.msgs = << Msg("success", "Uploaded and processed",
                                 Len(upl_in.files)) >>

\* C12: in one Upload & Process action, whatever files are selected and
\* whichever calls fail, REFRESH comes after every upload attempt and
\* before every PROCESS_ONE_FILE; PROCESS_ONE_FILE is issued only for files
\* whose upload succeeded, in upload order and at most once per file; with
\* no failure it is issued once per selected file and the success message
\* reports that number.
C12_UploadOrder ==
    upl_out.done =>
        C12_RefreshBetween /\ C12_ProcessUploaded /\ C12_AllProcessed

\* two or more files, one upload failed, another file was processed
C12_Witness ==
    /\ upl_out.done
    /\ Len(upl_in.files) >= 2
    /\ \E i \in CallsNamed("put_stream") : ~upl_out.calls[i].ok
    /\ \E i \in CallsNamed("PROCESS_ONE_FILE") : upl_out.calls[i].ok

(***************************************************************************)
(* C13  The page kept under a name's state key lies within 1..total_pages  *)
(* of the document rendered for the name, and the index of the page asked  *)
(* of the document lies within 0..total_pages-1, also when the name is     *)
(* rendered again with another page count.                                 *)
(***************************************************************************)
\* the name has been rendered since the cache was last empty
RenderedFor(f) == Hit(cache.fetch_stage_file, Key_fetch_stage_file(f))

\* len(pdf) of the document rendered for the name
TotalPages(f) == Fetched(f).pages

C13_PersistedInBounds ==
    \A f \in PdfFiles :
        RenderedFor(f) /\ session_state[f] # 0
            => session_state[f] \in 1..TotalPages(f)

C13_IndexInBounds ==
    frame.file \in PdfFiles /\ RenderedFor(frame.file)
        => \A i \in 1..Len(frame.out) :
               frame.out[i].kind = "image"
                   => frame.out[i].cur \in 0..(TotalPages(frame.file) - 1)

\* C13: both bounds, in every state of a session with uploads in between
C13_PageBounds == C13_PersistedInBounds /\ C13_IndexInBounds

\* the same bounds while the name keeps standing for one document
C13_BoundsOneDocument ==
    \A f \in Files :
        session_state[f] # 0 => session_state[f] \in 1..stage[f].pages

\* the pass that finds a kept page beyond the new page count draws no slider
\* and no page
C13_Unavailable ==
    frame.file \in PdfFiles /\ RenderedFor(frame.file)
    /\ TotalPages(frame.file) >= 2
    /\ session_state[frame.file] > TotalPages(frame.file)
        => /\ \E i \in 1..Len(frame.out) : frame.out[i] = Unavailable
           /\ \A i \in 1..Len(frame.out) :
                  frame.out[i].kind \notin {"slider", "image", "caption"}

====
